---- MODULE Spec2Model ----
(***************************************************************************)
(* A state-machine model of the drum pad's audio engine (AudioService),    *)
(* of the store's audio initialisation (initializeAudio) and of the        *)
(* store's recorder/sequencer (startRecording .. clearRecording).          *)
(*                                                                         *)
(* One action is one task of the JavaScript event loop: a call made by the *)
(* page, the settling of one fetch-and-decode promise together with the    *)
(* chain of promise continuations it releases, or the firing of one timer. *)
(***************************************************************************)
EXTENDS Integers, Sequences, FiniteSets, TLC

\* ---------------------------------------------------------------- bounds
\* The loader's catalog is cut to its first NumDrumTypes names.
NumDrumTypes == 1
\* Calls from the page that create a source, over one behaviour.
MaxSources == 2
\* Events recorded by pad triggers of the user in one recording.
MaxEvents == 2
\* Replays started over one behaviour.
MaxReplays == 2
\* The clock runs from 0 to MaxTime ms in steps of TickMs.
TickMs == 500
MaxTime == 1000
\* Sources created over one behaviour of the controls specification.
MaxOverlap == 17

\* ------------------------------------------------------------- constants
Catalog ==
  <<"HIHAT", "HIHAT_O", "SNARE", "RIMSHOT", "KICK", "TOM1", "TOM2", "FLOOR",
    "CRASH", "SPLASH", "RIDE">>
VariantsPerDrum == 3
\* The trailing margin of the auto-stop timer, in ms.
AutoStopMargin == 500
\* Volumes are counted in tenths: 10 is the gain 1.0, 7 the default 0.7.
FullVolume == 10
DefaultVolume == 7
\* The ceiling canPlaySimultaneousSounds compares with.
SimultaneousLimit == 16

drumTypes == {Catalog[i] : i \in 1..NumDrumTypes}
Variants == 0..(VariantsPerDrum - 1)
Slots == drumTypes \X Variants

\* The three places of the program that call audioService.preload(): the
\* module-level call, the store's initializeAudio() run by App's onMounted,
\* and the initializeAudio() run by the first click/touch.
Callers == {"module", "mount", "click"}

VARIABLES
  \* AudioService fields
  audioContext,      \* 0 = null, else the number of the context created last
  masterGainNode,    \* 0 = null, else the context it belongs to
  buffers,           \* drumType -> the batch whose array the map holds, or "none"
  isInitialized,
  isLoading,
  loadingProgress,
  totalSounds,
  loadedSounds,
  loadingCallbacks,  \* sequence of registered listeners
  activeSources,     \* set of source ids
  masterVolume,      \* in tenths
  \* the objects the fields refer to
  arrays,            \* batch -> slot -> TRUE when the array cell holds a buffer
  load,              \* batch -> slot -> "none" | "pending" | "ok" | "failed"
  stale,             \* batch -> its unsettled loads, once its arrays left the map
  sourcesCreated,    \* number of AudioBufferSourceNodes created so far
  contextState,      \* "none" | "suspended" | "running": audioContext.state
  gainValue,         \* masterGainNode.gain.value, in tenths (0 without a node)
  fetched,           \* slot -> number of loadSound calls made for its asset
  playing,           \* the sources started and neither ended nor stopped
  stopping,          \* the sources stopped whose ended event is still to come
  gainOf,            \* source -> the gain node created for it
  configVolume,      \* config.volume, in tenths
  \* the store's audio state
  pc,                \* caller -> "init" | "awaiting" | "done"
  isAudioLoading,
  audioLoadingProgress,
  isAudioReady,
  \* observations
  reported,          \* every value passed to notifyLoadingCallbacks, in order
  lastPlay,          \* the last playSound call: what it saw and returned
  lastCall,          \* the last stopAllSounds / setVolume /
                     \* canPlaySimultaneousSounds call and how it returned
  \* the store's recorder, and the config toggles playDrum reads
  isRecording,
  isPlaying,
  recordedEvents,
  soundedAs,         \* for each recorded event, the sound name the engine was asked for
  recordingStartTime,
  hihatClosed,
  useRimshot,
  \* the host: Date.now() and the pending setTimeout callbacks
  now,
  timers,
  \* observations of the replays
  replays,           \* number of replays started; the latest is the current one
  stoppedReplays,    \* the replays stopPlaying() was called on
  clearedReplays,    \* the replays with a callback pending at a clearRecording()
                     \* (both: as long as a callback of the replay is pending)
  lastFire           \* the last replay callback that ran, and what it did

engineVars ==
  <<audioContext, masterGainNode, buffers, isInitialized, isLoading,
    loadingProgress, totalSounds, loadedSounds, loadingCallbacks, arrays, load,
    stale, fetched>>
playVars == <<activeSources, sourcesCreated, lastPlay>>
unitVars == <<playing, stopping, gainOf, contextState>>
volumeVars == <<masterVolume, gainValue, configVolume, lastCall>>
storeAudioVars == <<pc, isAudioLoading, audioLoadingProgress, isAudioReady>>
recVars ==
  <<isRecording, isPlaying, recordedEvents, soundedAs, recordingStartTime, hihatClosed,
    useRimshot, now, timers, replays, stoppedReplays, clearedReplays,
    lastFire>>
vars ==
  <<engineVars, playVars, unitVars, volumeVars, storeAudioVars, reported,
    recVars>>

\* ------------------------------------------------------------ helpers
RECURSIVE RemoveFirst(_, _)
RemoveFirst(s, x) ==
  IF s = <<>> THEN <<>>
  ELSE IF Head(s) = x THEN Tail(s)
  ELSE <<Head(s)>> \o RemoveFirst(Tail(s), x)

Range(s) == {s[i] : i \in 1..Len(s)}

\* Math.round((loaded / total) * 100)
RoundPercent(loaded, total) == (200 * loaded + total) \div (2 * total)

\* The part of the state a progress notification reads and writes.
Chain ==
  [loadingCallbacks |-> loadingCallbacks,
   audioLoadingProgress |-> audioLoadingProgress,
   isAudioLoading |-> isAudioLoading,
   isAudioReady |-> isAudioReady,
   reported |-> reported]

\* The listener initializeAudio registers; l is the registration it unsubscribes.
progressListener(st, l, progress) ==
  IF progress = 100
  THEN [st EXCEPT !.audioLoadingProgress = progress,
                  !.isAudioLoading = FALSE,
                  !.isAudioReady = TRUE,
                  !.loadingCallbacks = RemoveFirst(@, l)]
  ELSE [st EXCEPT !.audioLoadingProgress = progress]

\* Array.prototype.forEach over loadingCallbacks, from index k: an element is
\* visited only if its index is still in the array when the loop gets there.
RECURSIVE forEachCallback(_, _, _)
forEachCallback(st, k, progress) ==
  IF k > Len(st.loadingCallbacks) THEN st
  ELSE forEachCallback(progressListener(st, st.loadingCallbacks[k], progress),
                       k + 1, progress)

notifyLoadingCallbacks(st, progress) ==
  [forEachCallback(st, 1, progress) EXCEPT !.reported = Append(@, progress)]

\* initializeAudio after its await: subscribe, then look at the loading state.
initializeAudioResume(st, c, loadingNow) ==
  LET sub == [st EXCEPT !.loadingCallbacks = Append(@, c)]
  IN IF ~loadingNow
     THEN [sub EXCEPT !.isAudioLoading = FALSE,
                      !.isAudioReady = TRUE,
                      !.audioLoadingProgress = 100]
     ELSE sub

\* What the caller does when its preload() promise resolves.
resumeCaller(st, c, loadingNow) ==
  IF c = "module" THEN st ELSE initializeAudioResume(st, c, loadingNow)

Commit(st) ==
  /\ loadingCallbacks' = st.loadingCallbacks
  /\ audioLoadingProgress' = st.audioLoadingProgress
  /\ isAudioLoading' = st.isAudioLoading
  /\ isAudioReady' = st.isAudioReady
  /\ reported' = st.reported

\* ------------------------------------------------------------ Init
RecorderInit ==
  /\ isRecording = FALSE
  /\ isPlaying = FALSE
  /\ recordedEvents = <<>>
  /\ soundedAs = <<>>
  /\ recordingStartTime = 0
  /\ hihatClosed = TRUE
  /\ useRimshot = FALSE
  /\ now = 0
  /\ timers = {}
  /\ replays = 0
  /\ stoppedReplays = {}
  /\ clearedReplays = {}
  /\ lastFire = [fired |-> FALSE]

Init ==
  /\ RecorderInit
  /\ audioContext = 0
  /\ masterGainNode = 0
  /\ buffers = [d \in drumTypes |-> "none"]
  /\ isInitialized = FALSE
  /\ isLoading = FALSE
  /\ loadingProgress = 0
  /\ totalSounds = 0
  /\ loadedSounds = 0
  /\ loadingCallbacks = <<>>
  /\ activeSources = {}
  /\ arrays = [c \in Callers |-> [s \in Slots |-> FALSE]]
  /\ load = [c \in Callers |-> [s \in Slots |-> "none"]]
  /\ stale = [c \in Callers |-> 0]
  /\ sourcesCreated = 0
  /\ pc = [c \in Callers |-> "init"]
  /\ isAudioLoading = TRUE
  /\ audioLoadingProgress = 0
  /\ isAudioReady = FALSE
  /\ reported = <<>>
  /\ lastPlay = [called |-> FALSE]
  /\ contextState = "none"
  /\ gainValue = 0
  /\ fetched = [s \in Slots |-> 0]
  /\ playing = {}
  /\ stopping = {}
  /\ gainOf = <<>>
  /\ masterVolume = DefaultVolume
  /\ configVolume = DefaultVolume
  /\ lastCall = [op |-> "none"]

\* ------------------------------------------------------------ loader
\* The order in which the program reaches its three calls of preload().
MayCall(c) ==
  /\ pc[c] = "init"
  /\ c = "mount" => pc["module"] # "init"
  /\ c = "click" => pc["mount"] = "done"

\* initialize() reaches preloadSounds only when isInitialized is false.
initializeGuard == ~isInitialized

Pending(c) == {s \in Slots : load[c][s] = "pending"}

\* this.buffers.set(drumType, buffers) replaces the arrays of the batch before:
\* nothing reads them again, and what is left of that batch is the number of
\* its promises still to settle.
Superseded(c) == {b \in Callers \ {c} : \E d \in drumTypes : buffers[d] = b}

\* new AudioContext(...): a context made before the page has seen a user
\* gesture starts suspended; the one made by the first click starts running.
newContextState(c) == IF c = "click" THEN "running" ELSE "suspended"

\* (mutant) the new gain node keeps the gain a GainNode is created with
createMasterGainDefault == FullVolume

\* lines 27-28: createGain(), then gain.setValueAtTime(this.masterVolume, ...)
createMasterGain == masterVolume

\* preload() -> initialize() -> preloadSounds() up to its await. ctxOk: whether
\* the AudioContext constructor returns (it throws into the catch otherwise).
Preload(c, ctxOk) ==
  /\ MayCall(c)
  /\ UNCHANGED <<playVars, playing, stopping, gainOf, recVars>>
  /\ UNCHANGED <<masterVolume, configVolume, lastCall>>
  /\ IF initializeGuard /\ ctxOk
     THEN /\ audioContext' = audioContext + 1
          /\ contextState' = newContextState(c)
          /\ masterGainNode' = audioContext + 1
          /\ gainValue' = createMasterGain
          /\ fetched' = [s \in Slots |-> fetched[s] + 1]
          /\ isLoading' = TRUE
          /\ loadingProgress' = 0
          /\ loadedSounds' = 0
          /\ totalSounds' = Cardinality(drumTypes) * VariantsPerDrum
          /\ buffers' = [d \in drumTypes |-> c]
          /\ arrays' = [b \in Callers |-> [s \in Slots |-> FALSE]]
          /\ load' = [b \in Callers |->
                        [s \in Slots |-> IF b = c THEN "pending" ELSE "none"]]
          /\ stale' = [b \in Callers |->
                         IF b \in Superseded(c) THEN Cardinality(Pending(b))
                         ELSE stale[b]]
          /\ pc' = [pc EXCEPT ![c] = "awaiting"]
          /\ UNCHANGED <<isInitialized, loadingCallbacks, isAudioLoading,
                         audioLoadingProgress, isAudioReady, reported>>
     ELSE /\ pc' = [pc EXCEPT ![c] = "done"]
          /\ Commit(resumeCaller(Chain, c, isLoading))
          /\ UNCHANGED <<audioContext, masterGainNode, buffers, isInitialized,
                         isLoading, loadingProgress, totalSounds, loadedSounds,
                         arrays, load, stale, contextState, gainValue, fetched>>

\* (mutant) buffers.push(buffer): the first empty cell of the sound is written.
storeBufferPush(arr, s, ok) ==
  IF ok
  THEN LET free == {v \in Variants : ~arr[<<s[1], v>>]}
           first == CHOOSE v \in free : \A w \in free : v <= w
       IN [arr EXCEPT ![<<s[1], first>>] = TRUE]
  ELSE arr

\* The .then / .catch handler of one load: the cell written on success.
storeBuffer(arr, s, ok) == IF ok THEN [arr EXCEPT ![s] = TRUE] ELSE arr

\* updateLoadingProgress, then, when `done` (Promise.all of batch c resolved),
\* the rest of preloadSounds, of initialize, of preload and of the caller:
\* promise continuations of one task.
AfterLoad(c, done) ==
  /\ loadedSounds' = loadedSounds + 1
  /\ LET progress == RoundPercent(loadedSounds + 1, totalSounds)
         st1 == notifyLoadingCallbacks(Chain, progress)
         st2 == IF done THEN notifyLoadingCallbacks(st1, 100) ELSE st1
         st3 == IF done THEN resumeCaller(st2, c, FALSE) ELSE st2
     IN /\ loadingProgress' = IF done THEN 100 ELSE progress
        /\ isLoading' = IF done THEN FALSE ELSE isLoading
        /\ isInitialized' = IF done THEN TRUE ELSE isInitialized
        /\ pc' = IF done THEN [pc EXCEPT ![c] = "done"] ELSE pc
        /\ Commit(st3)

\* Promise.all(allPromises): every handler has run. A failed load counts, its
\* .catch turns the rejection into a fulfilled promise.
batchDoneFailFast(c, s, ok) == Pending(c) = {s} /\ ok

batchDone(c, s, ok) == Pending(c) = {s}

\* One fetch-and-decode of the batch the map holds settles.
Settle(c, s, ok) ==
  /\ load[c][s] = "pending"
  /\ UNCHANGED <<playVars, unitVars, volumeVars, recVars>>
  /\ UNCHANGED <<audioContext, masterGainNode, buffers, totalSounds, stale,
                 fetched>>
  /\ load' = [load EXCEPT ![c][s] = IF ok THEN "ok" ELSE "failed"]
  /\ arrays' = [arrays EXCEPT ![c] = storeBuffer(@, s, ok)]
  /\ AfterLoad(c, batchDone(c, s, ok))

\* One fetch-and-decode of a superseded batch settles (either way).
SettleStale(c) ==
  /\ stale[c] > 0
  /\ UNCHANGED <<playVars, unitVars, volumeVars, recVars>>
  /\ UNCHANGED <<audioContext, masterGainNode, buffers, totalSounds, arrays, load,
                 fetched>>
  /\ stale' = [stale EXCEPT ![c] = @ - 1]
  /\ AfterLoad(c, stale[c] = 1)

\* ------------------------------------------------------------ playSound
isReady == isInitialized /\ ~isLoading

\* (mutant) only the objects are looked at, not the flags
playSoundNotReadyObjects == audioContext = 0 \/ masterGainNode = 0

\* lines 122-130
playSoundNotReady ==
  \/ ~isInitialized \/ audioContext = 0 \/ masterGainNode = 0
  \/ isLoading

\* (mutant) only buffers.get(drumType) is looked at, not the cell
playSoundAbsentEntry(drumType, variant) ==
  IF drumType \notin drumTypes THEN TRUE ELSE buffers[drumType] = "none"

\* lines 132-136: buffers.get(drumType) and buffers[variant]
playSoundAbsent(drumType, variant) ==
  IF drumType \notin drumTypes THEN TRUE
  ELSE IF buffers[drumType] = "none" THEN TRUE
  ELSE IF variant \notin Variants THEN TRUE
  ELSE ~arrays[buffers[drumType]][<<drumType, variant>>]

\* null (TRUE) or a source node (FALSE)
playSoundReturnsNull(drumType, variant) ==
  playSoundNotReady \/ playSoundAbsent(drumType, variant)

\* The cell playSound(drumType, variant) reads holds a decoded buffer.
SlotHolds(drumType, variant) ==
  \E b \in Callers :
    /\ drumType \in drumTypes /\ buffers[drumType] = b
    /\ <<drumType, variant>> \in Slots /\ arrays[b][<<drumType, variant>>]

SoundArgs == drumTypes \cup {"COWBELL"}
VariantArgs == 0..VariantsPerDrum

\* What the host does with one playSound call: whether the promise of
\* audioContext.resume() fulfils, whether createBufferSource / createGain /
\* connect return, and whether source.start(0) returns.
HostArgs ==
  {[resumeOk |-> TRUE, createOk |-> TRUE, startOk |-> TRUE],
   [resumeOk |-> FALSE, createOk |-> TRUE, startOk |-> TRUE],
   [resumeOk |-> TRUE, createOk |-> FALSE, startOk |-> TRUE],
   [resumeOk |-> TRUE, createOk |-> TRUE, startOk |-> FALSE]}

\* The host on which nothing fails.
HostOk == [resumeOk |-> TRUE, createOk |-> TRUE, startOk |-> TRUE]

\* (mutant) the context is never resumed
resumeNever == FALSE

\* lines 140-142: audioContext.resume() is called
resumeRequested == contextState = "suspended"

\* line 145: audioContext.createGain(), a node that did not exist before
createGain == Len(gainOf) + 1

\* A statement of the try block (lines 138-168) throws.
playSoundThrows(host) == ~host.createOk \/ ~host.startOk

\* lines 138, 169-172: the catch of the try block takes every throw
playSoundCaught == TRUE

\* What playSound returns: 0 for null, else the source.
playSoundResult(drumType, variant, host) ==
  IF playSoundReturnsNull(drumType, variant) \/ playSoundThrows(host) THEN 0
  ELSE sourcesCreated + 1

\* playSound(drumType, variant): lines 121-173.
playSound(drumType, variant, host) ==
  IF playSoundReturnsNull(drumType, variant)
  THEN UNCHANGED <<activeSources, sourcesCreated, playing, gainOf, contextState>>
  ELSE /\ contextState' = IF resumeRequested /\ host.resumeOk THEN "running"
                          ELSE contextState
       /\ IF ~host.createOk
          THEN UNCHANGED <<activeSources, sourcesCreated, playing, gainOf>>
          ELSE /\ sourcesCreated' = sourcesCreated + 1
               /\ gainOf' = Append(gainOf, createGain)
               /\ activeSources' = activeSources \cup {sourcesCreated + 1}
               /\ playing' = IF host.startOk
                             THEN playing \cup {sourcesCreated + 1}
                             ELSE playing

\* Whether playSound(drumType, variant) would create a source now.
Creates(drumType, variant, host) ==
  ~playSoundReturnsNull(drumType, variant) /\ host.createOk

\* A call of audioService.playSound from the page, observed in lastPlay; at
\* most max sources are created over a behaviour.
PlaySoundWithin(max, drumType, variant, host) ==
  /\ IF Creates(drumType, variant, host) THEN sourcesCreated < max ELSE TRUE
  /\ playSound(drumType, variant, host)
  /\ lastPlay' = [called |-> TRUE, wasInitialized |-> isInitialized,
                  wasLoading |-> isLoading,
                  known |-> <<drumType, variant>> \in Slots,
                  held |-> SlotHolds(drumType, variant),
                  suspended |-> ~playSoundReturnsNull(drumType, variant)
                                /\ contextState = "suspended",
                  resumed |-> ~playSoundReturnsNull(drumType, variant)
                              /\ resumeRequested,
                  threw |-> ~playSoundReturnsNull(drumType, variant)
                            /\ playSoundThrows(host),
                  raised |-> ~playSoundReturnsNull(drumType, variant)
                             /\ playSoundThrows(host) /\ ~playSoundCaught,
                  result |-> playSoundResult(drumType, variant, host),
                  added |-> activeSources' \ activeSources]
  /\ UNCHANGED <<engineVars, storeAudioVars, reported, recVars>>
  /\ UNCHANGED <<stopping, volumeVars>>

PlaySound(drumType, variant, host) ==
  PlaySoundWithin(MaxSources, drumType, variant, host)

\* ------------------------------------------------------------ units
\* A started source reaches the end of its buffer; the host dispatches its
\* ended event and the onended handler (lines 160-164) runs.
SourceEnded(u) ==
  /\ u \in playing /\ contextState = "running"
  /\ playing' = playing \ {u}
  /\ activeSources' = activeSources \ {u}
  /\ UNCHANGED <<engineVars, sourcesCreated, lastPlay, stopping, gainOf,
                 contextState, volumeVars, storeAudioVars, reported, recVars>>

\* The ended event of a source that stopAllSounds stopped arrives.
LateEnded(u) ==
  /\ u \in stopping
  /\ stopping' = stopping \ {u}
  /\ activeSources' = activeSources \ {u}
  /\ UNCHANGED <<engineVars, sourcesCreated, lastPlay, playing, gainOf,
                 contextState, volumeVars, storeAudioVars, reported, recVars>>

\* The platform suspends the context (an interruption, a hidden tab).
PlatformSuspends ==
  /\ contextState = "running"
  /\ contextState' = "suspended"
  /\ UNCHANGED <<engineVars, playVars, playing, stopping, gainOf, volumeVars,
                 storeAudioVars, reported, recVars>>

\* source.stop() throws InvalidStateError on a source that was never started.
stopThrows(u) == u \notin playing

\* (mutant) source.stop() is called outside a try block
stopUncaught == FALSE

\* lines 225-229: the try block around source.stop()
stopCaught == TRUE

\* (mutant) only the sources that stop() stopped leave the set
clearStopped(sources) == {u \in sources : stopThrows(u)}

\* line 231: this.activeSources.clear()
clearActive(sources) == {}

\* store.stopAllSounds() -> audioService.stopAllSounds()
StopAllSounds ==
  /\ stopping' = stopping \cup (activeSources \cap playing)
  /\ playing' = playing \ activeSources
  /\ activeSources' = clearActive(activeSources)
  /\ lastCall' = [op |-> "stopAll", arg |-> Cardinality(activeSources),
                  result |-> 0,
                  raised |-> (\E u \in activeSources : stopThrows(u))
                             /\ ~stopCaught]
  /\ UNCHANGED <<engineVars, sourcesCreated, lastPlay, gainOf, contextState,
                 masterVolume, gainValue, configVolume, storeAudioVars,
                 reported, recVars>>

\* ------------------------------------------------------------ controls
\* (mutant) Math.min(1, volume)
clampVolumeUpper(volume) == IF volume > FullVolume THEN FullVolume ELSE volume

\* line 176: Math.max(0, Math.min(1, volume))
clampVolume(volume) ==
  IF volume > FullVolume THEN FullVolume
  ELSE IF volume < 0 THEN 0 ELSE volume

\* The slider values tried, and values outside its range.
VolumeArgs == {0 - FullVolume, 0, 3, FullVolume, 2 * FullVolume}

\* store.setVolume(volume): configStore.setVolume, then audioService.setVolume
SetVolume(volume) ==
  /\ configVolume' = volume
  /\ masterVolume' = clampVolume(volume)
  /\ gainValue' = IF masterGainNode # 0 /\ audioContext # 0
                  THEN clampVolume(volume) ELSE gainValue
  /\ lastCall' = [op |-> "setVolume", arg |-> volume, result |-> 0,
                  raised |-> FALSE]
  /\ UNCHANGED <<engineVars, playVars, unitVars, storeAudioVars, reported,
                 recVars>>

\* (mutant) count < 16
canPlayBelow(count) == count < SimultaneousLimit

\* line 243: count <= 16
canPlaySimultaneousSounds(count) == count <= SimultaneousLimit

CountArgs == 0..(MaxOverlap + 1)

\* store.canPlaySimultaneousSounds(count)
CanPlaySimultaneousSounds(count) ==
  /\ lastCall' = [op |-> "canPlay", arg |-> count,
                  result |-> IF canPlaySimultaneousSounds(count) THEN 1 ELSE 0,
                  raised |-> FALSE]
  /\ UNCHANGED <<engineVars, playVars, unitVars, masterVolume, gainValue,
                 configVolume, storeAudioVars, reported, recVars>>

\* ------------------------------------------------------------ recorder
\* drumId.toUpperCase()
UpperCase ==
  [hihat |-> "HIHAT", snare |-> "SNARE", kick |-> "KICK", tom1 |-> "TOM1",
   tom2 |-> "TOM2", floor |-> "FLOOR", crash |-> "CRASH", splash |-> "SPLASH",
   ride |-> "RIDE"]

\* (mutant) every pad asks for its upper-cased id
soundTypeUpper(drumId) == UpperCase[drumId]

\* playDrum lines 94-102: the sound a pad asks the engine for
soundType(drumId) ==
  IF drumId = "hihat" THEN (IF hihatClosed THEN "HIHAT" ELSE "HIHAT_O")
  ELSE IF drumId = "snare" THEN (IF useRimshot THEN "RIMSHOT" ELSE "SNARE")
  ELSE UpperCase[drumId]

\* (mutant) the event carries the wall-clock time of the trigger
RecordedEventAbsolute(drumId, variant) ==
  [timestamp |-> now, drumId |-> drumId, variant |-> variant]

\* lines 116-120: the event pushed for a trigger
RecordedEvent(drumId, variant) ==
  [timestamp |-> now - recordingStartTime, drumId |-> drumId, variant |-> variant]

\* (mutant) every sounding trigger is recorded
recordsTriggerAlways(source) == source # 0

\* lines 107, 115: if (source) { ... if (isRecording.value) { push } }
recordsTrigger(source) == source # 0 /\ isRecording

\* playDrum(drumId, variant), without the pad highlight
playDrum(drumId, variant, host) ==
  IF ~isAudioReady
  THEN UNCHANGED <<activeSources, sourcesCreated, playing, gainOf, contextState,
                   recordedEvents, soundedAs>>
  ELSE /\ playSound(soundType(drumId), variant, host)
       /\ recordedEvents' =
            IF recordsTrigger(playSoundResult(soundType(drumId), variant, host))
            THEN Append(recordedEvents, RecordedEvent(drumId, variant))
            ELSE recordedEvents
       /\ soundedAs' =
            IF recordsTrigger(playSoundResult(soundType(drumId), variant, host))
            THEN Append(soundedAs, soundType(drumId))
            ELSE soundedAs

PadArgs == {"hihat", "snare"}
\* The values of Math.floor(Math.random() * 3) tried.
RandomArgs == {0, 2}

\* Whether playDrum(drumId, variant) would create a source now.
Sounds(drumId, variant, host) ==
  isAudioReady /\ Creates(soundType(drumId), variant, host)

\* A pad is hit or its key pressed; variant is what variantGenerator yields.
PlayDrumWithin(max, drumId, variant, host) ==
  /\ Sounds(drumId, variant, host) =>
       /\ sourcesCreated < max
       /\ isRecording => Len(recordedEvents) < MaxEvents
  /\ playDrum(drumId, variant, host)
  /\ UNCHANGED <<engineVars, storeAudioVars, reported, lastPlay>>
  /\ UNCHANGED <<stopping, volumeVars>>
  /\ UNCHANGED <<isRecording, isPlaying, recordingStartTime, hihatClosed,
                 useRimshot, now, timers, replays, stoppedReplays,
                 clearedReplays, lastFire>>

PlayDrum(drumId, variant, host) ==
  PlayDrumWithin(MaxSources, drumId, variant, host)

\* The pads of the board.
AllPads == DOMAIN UpperCase

\* playDrum(drumId) with the name it hands to audioService.playSound noted.
PlayPad(drumId, variant) ==
  /\ Sounds(drumId, variant, HostOk) => sourcesCreated < MaxSources
  /\ playDrum(drumId, variant, HostOk)
  /\ lastCall' = [op |-> "playDrum", arg |-> drumId,
                  result |-> soundType(drumId), raised |-> FALSE]
  /\ UNCHANGED <<engineVars, storeAudioVars, reported, lastPlay>>
  /\ UNCHANGED <<stopping, masterVolume, gainValue, configVolume>>
  /\ UNCHANGED <<isRecording, isPlaying, recordingStartTime, hihatClosed,
                 useRimshot, now, timers, replays, stoppedReplays,
                 clearedReplays, lastFire>>

\* store.toggleHihat() -> configStore.toggleHihat()
ToggleHihat ==
  /\ hihatClosed' = ~hihatClosed
  /\ UNCHANGED <<engineVars, playVars, unitVars, volumeVars, storeAudioVars,
                 reported>>
  /\ UNCHANGED <<isRecording, isPlaying, recordedEvents, soundedAs, recordingStartTime,
                 useRimshot, now, timers, replays, stoppedReplays,
                 clearedReplays, lastFire>>

\* store.toggleRimshot() -> configStore.toggleRimshot()
ToggleRimshot ==
  /\ useRimshot' = ~useRimshot
  /\ UNCHANGED <<engineVars, playVars, unitVars, volumeVars, storeAudioVars,
                 reported>>
  /\ UNCHANGED <<isRecording, isPlaying, recordedEvents, soundedAs, recordingStartTime,
                 hihatClosed, now, timers, replays, stoppedReplays,
                 clearedReplays, lastFire>>

\* store.clearAllSettings() -> configStore.clearAllSettings(): the config is
\* replaced by the defaults; the engine is not told.
ClearAllSettings ==
  /\ hihatClosed' = TRUE
  /\ useRimshot' = FALSE
  /\ configVolume' = DefaultVolume
  /\ UNCHANGED <<engineVars, playVars, unitVars, masterVolume, gainValue,
                 lastCall, storeAudioVars, reported>>
  /\ UNCHANGED <<isRecording, isPlaying, recordedEvents, soundedAs, recordingStartTime,
                 now, timers, replays, stoppedReplays, clearedReplays,
                 lastFire>>

Recorder(rec, evs, start) ==
  /\ isRecording' = rec
  /\ recordedEvents' = evs
  /\ soundedAs' = IF evs = <<>> THEN <<>> ELSE soundedAs
  /\ recordingStartTime' = start

\* (mutant) the events of the session before are kept
startRecordingKeep == Recorder(TRUE, recordedEvents, now)

startRecording == Recorder(TRUE, <<>>, now)

stopRecording == Recorder(FALSE, recordedEvents, recordingStartTime)

ToggleRecording ==
  /\ IF isRecording THEN stopRecording ELSE startRecording
  /\ UNCHANGED <<engineVars, playVars, unitVars, volumeVars, storeAudioVars,
                 reported>>
  /\ UNCHANGED <<isPlaying, hihatClosed, useRimshot, now, timers, replays,
                 stoppedReplays, clearedReplays, lastFire>>

\* The callbacks playRecording hands to setTimeout for replay r.
EventTimers(r) ==
  {[kind |-> "event", replay |-> r, idx |-> i,
    due |-> now + recordedEvents[i].timestamp,
    drumId |-> recordedEvents[i].drumId,
    variant |-> recordedEvents[i].variant,
    sounded |-> soundedAs[i]] : i \in 1..Len(recordedEvents)}

RECURSIVE MaxOf(_)
MaxOf(S) ==
  LET x == CHOOSE y \in S : TRUE
  IN IF S = {x} THEN x
     ELSE LET m == MaxOf(S \ {x}) IN IF x > m THEN x ELSE m

longestEvent ==
  MaxOf({recordedEvents[i].timestamp : i \in 1..Len(recordedEvents)})

AutoStopTimer(r) ==
  [kind |-> "auto", replay |-> r, idx |-> Len(recordedEvents) + 1,
   due |-> now + longestEvent + AutoStopMargin, drumId |-> "", variant |-> 0,
   sounded |-> ""]

\* (mutant) only an empty recording makes playRecording return at once
playRecordingNoOpEmpty == Len(recordedEvents) = 0

\* line 152: the calls playRecording returns from at once
playRecordingNoOp == Len(recordedEvents) = 0 \/ isPlaying

playRecording ==
  IF playRecordingNoOp
  THEN UNCHANGED <<isPlaying, timers, replays, stoppedReplays>>
  ELSE /\ replays < MaxReplays
       /\ Len(recordedEvents) <= MaxEvents
       /\ isPlaying' = TRUE
       /\ replays' = replays + 1
       /\ timers' = timers \cup EventTimers(replays + 1)
                           \cup {AutoStopTimer(replays + 1)}
       /\ UNCHANGED stoppedReplays

stopPlaying ==
  /\ isPlaying' = FALSE
  /\ stoppedReplays' = stoppedReplays \cup {replays}
  /\ UNCHANGED <<timers, replays>>

\* playRecording() called in any state; the store itself calls it from
\* togglePlaying, when no replay runs.
PlayRecording ==
  /\ playRecording
  /\ UNCHANGED <<engineVars, playVars, unitVars, volumeVars, storeAudioVars,
                 reported>>
  /\ UNCHANGED <<isRecording, recordedEvents, soundedAs, recordingStartTime, hihatClosed,
                 useRimshot, now, clearedReplays, lastFire>>

TogglePlaying ==
  /\ IF isPlaying THEN stopPlaying ELSE playRecording
  /\ UNCHANGED <<engineVars, playVars, unitVars, volumeVars, storeAudioVars,
                 reported>>
  /\ UNCHANGED <<isRecording, recordedEvents, soundedAs, recordingStartTime, hihatClosed,
                 useRimshot, now, clearedReplays, lastFire>>

ClearRecording ==
  /\ recordedEvents' = <<>>
  /\ soundedAs' = <<>>
  /\ isPlaying' = FALSE
  /\ UNCHANGED <<engineVars, playVars, unitVars, volumeVars, storeAudioVars,
                 reported>>
  /\ clearedReplays' = clearedReplays \cup {t.replay : t \in timers}
  /\ UNCHANGED <<isRecording, recordingStartTime, hihatClosed, useRimshot, now,
                 timers, replays, stoppedReplays, lastFire>>

\* ------------------------------------------------------------ timers
\* Timers run in the order of their due time; those due together run in the
\* order they were set.
Before(t, u) ==
  \/ t.due < u.due
  \/ t.due = u.due /\ t.replay < u.replay
  \/ t.due = u.due /\ t.replay = u.replay /\ t.idx < u.idx

Due == {t \in timers : t.due <= now}

NextTimer(t) == t \in Due /\ \A u \in Due \ {t} : Before(t, u)

\* lines 157-160: the callback checks the flag at the time it runs
callbackSkips == ~isPlaying

\* A replay is forgotten once its last callback has run.
StillPending(S, t) ==
  IF \E u \in timers \ {t} : u.replay = t.replay THEN S ELSE S \ {t.replay}

\* The callback of one recorded event runs.
EventFires(t, host) ==
  /\ NextTimer(t) /\ t.kind = "event"
  /\ timers' = timers \ {t}
  /\ IF callbackSkips
     THEN UNCHANGED <<activeSources, sourcesCreated, playing, gainOf,
                      contextState, recordedEvents, soundedAs>>
     ELSE playDrum(t.drumId, t.variant, host)
  /\ lastFire' = [fired |-> TRUE, replay |-> t.replay,
                  stopped |-> t.replay \in stoppedReplays,
                  played |-> ~callbackSkips]
  /\ UNCHANGED <<engineVars, storeAudioVars, reported, lastPlay>>
  /\ UNCHANGED <<stopping, volumeVars>>
  /\ stoppedReplays' = StillPending(stoppedReplays, t)
  /\ clearedReplays' = StillPending(clearedReplays, t)
  /\ UNCHANGED <<isRecording, isPlaying, recordingStartTime, hihatClosed,
                 useRimshot, now, replays>>

\* lines 165-167: the auto-stop callback runs.
AutoStopFires(t) ==
  /\ NextTimer(t) /\ t.kind = "auto"
  /\ timers' = timers \ {t}
  /\ isPlaying' = FALSE
  /\ UNCHANGED <<engineVars, playVars, unitVars, volumeVars, storeAudioVars,
                 reported>>
  /\ stoppedReplays' = StillPending(stoppedReplays, t)
  /\ clearedReplays' = StillPending(clearedReplays, t)
  /\ UNCHANGED <<isRecording, recordedEvents, soundedAs, recordingStartTime, hihatClosed,
                 useRimshot, now, replays, lastFire>>

\* Time passes when no timer is due.
Tick ==
  /\ Due = {}
  /\ now + TickMs <= MaxTime
  /\ now' = now + TickMs
  /\ UNCHANGED <<engineVars, playVars, unitVars, volumeVars, storeAudioVars,
                 reported>>
  /\ UNCHANGED <<isRecording, isPlaying, recordedEvents, soundedAs, recordingStartTime,
                 hihatClosed, useRimshot, timers, replays, stoppedReplays,
                 clearedReplays, lastFire>>

\* The engine once the module-level preload() has loaded its batch, with the
\* loads in okSlots decoded and the others failed, and App's onMounted has run
\* initializeAudio().
Loaded(okSlots) ==
  /\ audioContext = 1
  /\ masterGainNode = 1
  /\ buffers = [d \in drumTypes |-> "module"]
  /\ isInitialized = TRUE
  /\ isLoading = FALSE
  /\ loadingProgress = 100
  /\ totalSounds = Cardinality(Slots)
  /\ loadedSounds = Cardinality(Slots)
  /\ loadingCallbacks = <<"mount">>
  /\ activeSources = {}
  /\ arrays = [c \in Callers |-> [s \in Slots |-> c = "module" /\ s \in okSlots]]
  /\ load = [c \in Callers |-> [s \in Slots |->
               IF c # "module" THEN "none"
               ELSE IF s \in okSlots THEN "ok" ELSE "failed"]]
  /\ stale = [c \in Callers |-> 0]
  /\ sourcesCreated = 0
  /\ pc = [c \in Callers |-> IF c = "click" THEN "init" ELSE "done"]
  /\ isAudioLoading = FALSE
  /\ audioLoadingProgress = 100
  /\ isAudioReady = TRUE
  /\ reported = [k \in 1..(Cardinality(Slots) + 1) |->
                   IF k > Cardinality(Slots) THEN 100
                   ELSE RoundPercent(k, Cardinality(Slots))]
  /\ lastPlay = [called |-> FALSE]
  /\ contextState = newContextState("module")
  /\ gainValue = DefaultVolume
  /\ fetched = [s \in Slots |-> 1]
  /\ playing = {}
  /\ stopping = {}
  /\ gainOf = <<>>
  /\ masterVolume = DefaultVolume
  /\ configVolume = DefaultVolume
  /\ lastCall = [op |-> "none"]

\* The load failures tried: none, or the third variant of every sound.
FailedArgs == {{}, {s \in Slots : s[2] = 2}}

InitRec ==
  /\ RecorderInit
  /\ \E failed \in FailedArgs : Loaded(Slots \ failed)

NextRec ==
  \/ \E d \in PadArgs, v \in RandomArgs : PlayDrum(d, v, HostOk)
  \/ ToggleRecording
  \/ TogglePlaying
  \/ PlayRecording
  \/ ClearRecording
  \/ \E t \in timers : EventFires(t, HostOk)
  \/ \E t \in timers : AutoStopFires(t)
  \/ Tick

SpecRec == InitRec /\ [][NextRec]_vars

\* ------------------------------------------------------------ SpecIdle
\* The recorder used one mode at a time: the record button is pressed only
\* when no replay runs and the play button only when the recorder is not
\* armed, so every replay starts from idle.
NextIdle ==
  \/ \E d \in PadArgs, v \in RandomArgs : PlayDrum(d, v, HostOk)
  \/ ~isPlaying /\ ToggleRecording
  \/ ~isRecording /\ TogglePlaying
  \/ ClearRecording
  \/ \E t \in timers : EventFires(t, HostOk)
  \/ \E t \in timers : AutoStopFires(t)
  \/ Tick

SpecIdle == InitRec /\ [][NextIdle]_vars

\* ------------------------------------------------------------ SpecToggles
\* The same, with the hi-hat and rimshot buttons pressed at any time.
NextToggles ==
  \/ NextIdle
  \/ ToggleHihat
  \/ ToggleRimshot

SpecToggles == InitRec /\ [][NextToggles]_vars

\* ------------------------------------------------------------ SpecPlay
\* The loaded engine under pad triggers, direct playSound calls, stop-all and
\* a host on which resume, node creation and start may fail.
InitPlay == InitRec

\* The calls tried: a slot that is decoded and one whose load may have failed,
\* the first pad, a volume below the slider's range and one within it.
PlayArgs == {<<Catalog[1], 0>>, <<Catalog[1], VariantsPerDrum - 1>>}
PlayPadArgs == {"hihat"}
PlayVolumeArgs == {0 - FullVolume, 3}

NextPlay ==
  \/ \E a \in PlayArgs, host \in HostArgs : PlaySound(a[1], a[2], host)
  \/ \E d \in PlayPadArgs, host \in HostArgs : PlayDrum(d, 0, host)
  \/ ToggleRecording
  \/ \E u \in playing : SourceEnded(u)
  \/ \E u \in stopping : LateEnded(u)
  \/ StopAllSounds
  \/ \E v \in PlayVolumeArgs : SetVolume(v)
  \/ PlatformSuspends

SpecPlay == InitPlay /\ [][NextPlay]_vars

\* ------------------------------------------------------------ SpecControls
\* The loaded engine with up to MaxOverlap sources sounding together, the
\* volume slider and the ceiling query.
OverlapArgs == {<<Catalog[1], 0>>, <<"COWBELL", 0>>}

NextControls ==
  \/ \E a \in OverlapArgs : PlaySoundWithin(MaxOverlap, a[1], a[2], HostOk)
  \/ \E v \in VolumeArgs : SetVolume(v)
  \/ \E n \in CountArgs : CanPlaySimultaneousSounds(n)
  \/ ClearAllSettings

SpecControls == InitRec /\ [][NextControls]_vars

\* ------------------------------------------------------------ SpecPads
\* The loaded board: every pad hit under both positions of the two toggles,
\* the volume slider moved within its range, the settings reset.
SliderArgs == {v \in VolumeArgs : 0 <= v /\ v <= FullVolume}

NextPads ==
  \/ \E d \in AllPads, v \in RandomArgs : PlayPad(d, v)
  \/ ToggleHihat
  \/ ToggleRimshot
  \/ \E v \in SliderArgs : SetVolume(v)
  \/ ClearAllSettings

SpecPads == InitRec /\ [][NextPads]_vars

\* ------------------------------------------------------------ Spec
Next ==
  \/ \E c \in Callers, ctxOk \in BOOLEAN : Preload(c, ctxOk)
  \/ \E c \in Callers, s \in Slots, ok \in BOOLEAN : Settle(c, s, ok)
  \/ \E c \in Callers : SettleStale(c)
  \/ \E d \in SoundArgs, v \in VariantArgs : PlaySound(d, v, HostOk)

Spec == Init /\ [][Next]_vars

\* ------------------------------------------------------------ SpecVolume
\* The loader with the volume set at any time, before the engine is
\* initialized as well as after.
NextVolume ==
  \/ \E c \in Callers, ctxOk \in BOOLEAN : Preload(c, ctxOk)
  \/ \E c \in Callers, s \in Slots, ok \in BOOLEAN : Settle(c, s, ok)
  \/ \E c \in Callers : SettleStale(c)
  \/ \E v \in PlayVolumeArgs : SetVolume(v)

SpecVolume == Init /\ [][NextVolume]_vars

\* ------------------------------------------------------------ claims
AnyPending == \E c \in Callers : Pending(c) # {} \/ stale[c] > 0

Count100(seq) == Cardinality({i \in 1..Len(seq) : seq[i] = 100})

\* The load of the cell playSound reads for slot s.
Outcome(s) == IF buffers[s[1]] = "none" THEN "none" ELSE load[buffers[s[1]]][s]

\* C1: a replay callback that was scheduled by a replay on which stopPlaying()
\* has since been called never calls playDrum, whatever is done afterwards.
C1_StoppedReplayNeverPlays ==
  lastFire.fired => ~(lastFire.stopped /\ lastFire.played)

\* C2: the program's calls of preload() create one audio context and one load
\* batch at most, also when a call arrives while an earlier one is awaiting.
C2_OneContextOneBatch ==
  /\ audioContext <= 1
  /\ Cardinality({c \in Callers : pc[c] = "awaiting"}) <= 1

\* C3: once a single load batch has settled, the values passed to
\* notifyLoadingCallbacks hold 100 exactly once, as their last element.
C3_HundredOnce ==
  (audioContext = 1 /\ isInitialized) =>
    /\ Count100(reported) = 1
    /\ reported[Len(reported)] = 100

\* C4: the progress values reported are non-decreasing.
C4_ProgressNonDecreasing ==
  \A i, j \in 1..Len(reported) : i < j => reported[i] <= reported[j]

\* C5: no step reports 100, or turns isLoading from true to false, and leaves
\* an issued fetch-and-decode unsettled.
C5_CompletionAfterAllSettled ==
  [][(\/ Count100(reported') > Count100(reported)
      \/ isLoading /\ ~isLoading') => ~AnyPending']_vars

\* C6: once every issued load has settled, whichever of them failed, 100 has
\* been reported and isReady() is true; and whenever isReady() is true
\* playSound returns null for a slot whose load failed and a source for a
\* slot whose load succeeded.
C6_PartialFailureTolerance ==
  /\ (audioContext > 0 /\ ~AnyPending) =>
       (isReady /\ loadingProgress = 100 /\ 100 \in Range(reported))
  /\ isReady =>
       \A s \in Slots :
         /\ Outcome(s) = "failed" => playSoundReturnsNull(s[1], s[2])
         /\ Outcome(s) = "ok" => ~playSoundReturnsNull(s[1], s[2])

\* C6 witness: a settled batch with a failed and a decoded slot, ready.
C6_Witness ==
  /\ isReady /\ ~AnyPending
  /\ \E s, u \in Slots : Outcome(s) = "failed" /\ Outcome(u) = "ok"

\* C7: isReady() is true exactly when initialization has completed and no
\* fetch-and-decode of any batch is in flight.
C7_ReadyIffSettled == isReady <=> (isInitialized /\ ~AnyPending)

\* C8: the cell playSound reads for a slot holds a buffer exactly when that
\* cell's own fetch-and-decode succeeded, whatever became of the other loads.
C8_SlotIsolation ==
  \A s \in Slots : SlotHolds(s[1], s[2]) <=> Outcome(s) = "ok"

\* C8 witness: a settled batch in which a load failed and a later slot holds
\* its buffer.
C8_Witness ==
  /\ audioContext > 0 /\ ~AnyPending
  /\ \E s, u \in Slots :
       /\ s[2] < u[2]
       /\ Outcome(s) = "failed" /\ ~SlotHolds(s[1], s[2])
       /\ Outcome(u) = "ok" /\ SlotHolds(u[1], u[2])

\* C9: a playSound call made while the service is not initialized or while
\* isLoading is true returns null, creates no source and leaves the active
\* set as it was.
C9_NotReadyNoOp ==
  (lastPlay.called /\ (~lastPlay.wasInitialized \/ lastPlay.wasLoading)) =>
    (lastPlay.result = 0 /\ lastPlay.added = {})

\* C9 witness: playSound was called for a decoded slot while loading.
C9_Witness ==
  /\ lastPlay.called /\ lastPlay.wasLoading /\ lastPlay.held
  /\ lastPlay.result = 0

\* C10: a playSound call for a slot that holds no buffer (unknown name,
\* variant out of range, failed load) returns null, creates no source and
\* leaves the active set as it was.
C10_AbsentNoOp ==
  (lastPlay.called /\ ~lastPlay.held) =>
    (lastPlay.result = 0 /\ lastPlay.added = {})

\* C10 witness: the engine was ready and the slot's load had failed.
C10_Witness ==
  /\ lastPlay.called /\ lastPlay.wasInitialized /\ ~lastPlay.wasLoading
  /\ lastPlay.known /\ ~lastPlay.held /\ lastPlay.result = 0

\* C11: the active set is the set of sources started and neither ended nor
\* stopped, so getActiveSoundCount() is their number; and no two sources
\* have the same gain node.
C11_ActiveSetAccounting ==
  /\ activeSources = playing
  /\ \A u, w \in DOMAIN gainOf : u # w => gainOf[u] # gainOf[w]

\* C12: stopAllSounds() does not raise and leaves the active set empty, and
\* the ended event of a source it stopped, arriving later, leaves the active
\* set as it is.
C12_StopAllClears ==
  /\ [](lastCall.op = "stopAll" => ~lastCall.raised)
  /\ [](stopping \cap activeSources = {})
  /\ [][StopAllSounds => activeSources' = {}]_vars
  /\ [][(\E u \in stopping : LateEnded(u)) => activeSources' = activeSources]_vars

\* C12 witness: stop-all was called with two sources sounding together and
\* their ended events are still to come.
C12_Witness ==
  /\ lastCall.op = "stopAll" /\ lastCall.arg >= 2
  /\ Cardinality(stopping) >= 2 /\ activeSources = {}

\* The value of 0..FullVolume nearest to v.
Nearest(v) ==
  CHOOSE w \in 0..FullVolume :
    \A x \in 0..FullVolume :
      (IF w > v THEN w - v ELSE v - w) <= (IF x > v THEN x - v ELSE v - x)

\* C13: after setVolume(v) masterVolume and the master gain are
\* min(1, max(0, v)); the master volume is always within [0, 1].
C13_VolumeClamp ==
  /\ masterVolume \in 0..FullVolume
  /\ lastCall.op = "setVolume" =>
       (masterVolume = Nearest(lastCall.arg) /\ gainValue = masterVolume)

\* C13 witness: setVolume was called with a negative volume.
C13_Witness ==
  lastCall.op = "setVolume" /\ lastCall.arg < 0 /\ masterVolume = 0

\* C14: canPlaySimultaneousSounds(n) returns true exactly when n <= 16 and
\* changes no state, and a playSound call that passes its checks on a host
\* that does not fail returns a source and adds it, however many are active.
C14_CeilingDoesNotGate ==
  /\ [](lastCall.op = "canPlay" => (lastCall.result = 1 <=> lastCall.arg <= 16))
  /\ []((lastPlay.called /\ lastPlay.wasInitialized /\ ~lastPlay.wasLoading
          /\ lastPlay.held /\ ~lastPlay.threw)
         => (lastPlay.result # 0 /\ lastPlay.added = {lastPlay.result}))
  /\ [][(lastCall' # lastCall /\ lastCall'.op = "canPlay") =>
          UNCHANGED <<engineVars, playVars, unitVars, masterVolume, gainValue,
                      configVolume, storeAudioVars, recVars>>]_vars

\* C14 witness: playSound returned a source with 16 sources active, and the
\* ceiling query answered false for 17.
C14_Witness ==
  /\ lastPlay.called /\ lastPlay.result > SimultaneousLimit
  /\ Cardinality(activeSources) > SimultaneousLimit
  /\ lastCall.op = "canPlay" /\ lastCall.arg = SimultaneousLimit + 1
  /\ lastCall.result = 0

\* C15: a playSound call that passes its checks while the context is
\* suspended requests a resume of the context.
C15_ResumeAttempted ==
  (lastPlay.called /\ lastPlay.suspended) => lastPlay.resumed

\* C15 witness: a source was started on a context that was suspended.
C15_Witness ==
  /\ lastPlay.called /\ lastPlay.suspended /\ lastPlay.resumed
  /\ lastPlay.result # 0

\* C16: a call made while the context is suspended, and after which it is
\* still suspended, returns null, adds no source and records no event.
C16_FailedResumeIsNotReady ==
  [][(contextState = "suspended" /\ contextState' = "suspended") =>
       /\ activeSources' \subseteq activeSources
       /\ Len(recordedEvents') <= Len(recordedEvents)
       /\ lastPlay' # lastPlay => lastPlay'.result = 0]_vars

\* C17: loadSound is called at most once for each (sound, variant) asset.
C17_AtMostOneDecode == \A s \in Slots : fetched[s] <= 1

C20_NoAppendWhenStopped ==
  [][(~isRecording /\ ~isRecording') =>
       (recordedEvents' = recordedEvents \/ recordedEvents' = <<>>)]_vars

\* C20 witness: a replay callback called playDrum after recording stopped.
C20_Witness ==
  /\ ~isRecording /\ recordedEvents # <<>>
  /\ lastFire.fired /\ lastFire.played /\ sourcesCreated > Len(recordedEvents)

\* C21: while armed, a trigger that gets a source appends exactly one event
\* {now - recordingStartTime, drumId, variant} at the end of recordedEvents and
\* a rejected trigger appends nothing, whether the trigger is a pad hit or a
\* replay callback; so the timestamps of recordedEvents never decrease.
C21_AppendsInTriggerOrder ==
  /\ [](\A i, j \in 1..Len(recordedEvents) :
          i < j => recordedEvents[i].timestamp <= recordedEvents[j].timestamp)
  /\ [][\A d \in PadArgs, v \in RandomArgs :
          (isRecording /\ PlayDrum(d, v, HostOk)) =>
            recordedEvents' =
              IF sourcesCreated' > sourcesCreated
              THEN Append(recordedEvents,
                          [timestamp |-> now - recordingStartTime,
                           drumId |-> d, variant |-> v])
              ELSE recordedEvents]_vars
  /\ [][\A t \in timers :
          (isRecording /\ EventFires(t, HostOk)) =>
            recordedEvents' =
              IF sourcesCreated' > sourcesCreated
              THEN Append(recordedEvents,
                          [timestamp |-> now - recordingStartTime,
                           drumId |-> t.drumId, variant |-> t.variant])
              ELSE recordedEvents]_vars
  /\ [][(isRecording /\ isRecording' /\ sourcesCreated' = sourcesCreated) =>
          recordedEvents' \in {recordedEvents, <<>>}]_vars

\* Two triggers recorded at different times of a session that did not start
\* at time 0.
C21_Witness ==
  /\ isRecording
  /\ recordingStartTime > 0
  /\ Len(recordedEvents) = 2
  /\ recordedEvents[1].timestamp < recordedEvents[2].timestamp

\* C22: every replay starting from idle, when the callback of an event of the
\* latest replay comes due, and that replay was neither stopped nor cleared,
\* the callback calls playDrum
\* (with the event's drumId and variant, which it carries from the recording).
C22_ReplayPlaysEveryEvent ==
  [][\A t \in timers \ timers' :
       (/\ t.kind = "event"
        /\ t.replay = replays
        /\ t.replay \notin stoppedReplays \cup clearedReplays) =>
         /\ EventFires(t, HostOk)
         /\ now >= t.due
         /\ lastFire'.played]_vars

\* C23: a replay that is not stopped by stopPlaying or clearRecording returns
\* to idle only by a timer, and when it does, the time max(timestamps) + 500
\* after its start has come and every event callback of that replay has run.
C23_AutoCompleteNotEarly ==
  [][(isPlaying /\ ~isPlaying' /\ timers' # timers) =>
       \A t \in timers :
         t.replay = replays => t.kind = "auto" /\ t.due <= now]_vars

\* C24: clearRecording leaves recordedEvents empty and isPlaying false, and no
\* event callback that was pending when clearRecording ran calls playDrum
\* afterwards.
C24_ClearedNeverPlays ==
  [][/\ ClearRecording => recordedEvents' = <<>> /\ ~isPlaying'
     /\ \A t \in timers \ timers' :
          (t.kind = "event" /\ t.replay \in clearedReplays) =>
            ~lastFire'.played]_vars

\* C25: playRecording changes nothing when recordedEvents is empty or a replay
\* is in progress, and in those states no step sets a timer or starts a
\* replay, so no event is scheduled a second time.
C25_PlayRecordingNoOp ==
  [][(Len(recordedEvents) = 0 \/ isPlaying) =>
       /\ PlayRecording => UNCHANGED vars
       /\ timers' \subseteq timers
       /\ replays' = replays]_vars

\* A replay in progress with an event callback still pending: a state in
\* which a further call returns at once.
C25_Witness ==
  /\ isPlaying
  /\ Len(recordedEvents) > 0
  /\ \E t \in timers : t.kind = "event" /\ t.replay = replays

\* C26: the recorder is never armed and replaying at the same time.
C26_OneModeAtATime == ~(isRecording /\ isPlaying)

\* C27: every listener registered when a progress value is reported receives
\* it; for the value 100 the store's listener shows the receipt by
\* unsubscribing, so after a step that reports 100 none of the listeners
\* registered before it is still subscribed.
C27_EveryListenerReceives ==
  [][(\E k \in (Len(reported) + 1)..Len(reported') : reported'[k] = 100) =>
       \A l \in Range(loadingCallbacks) : l \notin Range(loadingCallbacks')]_vars

\* C28: playDrum('hihat') asks for HIHAT when hihatClosed and for HIHAT_O
\* otherwise, playDrum('snare') for RIMSHOT when useRimshot and for SNARE
\* otherwise, every other pad for its upper-cased id; the name asked for is
\* always one of the 11 names of the loader's catalog.
C28_PadToSound ==
  [][(lastCall' # lastCall /\ lastCall'.op = "playDrum") =>
       LET d == lastCall'.arg
           asked == lastCall'.result
       IN /\ asked \in Range(Catalog)
          /\ d = "hihat" => asked = IF hihatClosed THEN "HIHAT" ELSE "HIHAT_O"
          /\ d = "snare" => asked = IF useRimshot THEN "RIMSHOT" ELSE "SNARE"
          /\ d \notin {"hihat", "snare"} => asked = UpperCase[d]]_vars

\* The hi-hat pad hit with the hi-hat toggled open, while the rimshot is on.
C28_Witness ==
  /\ lastCall.op = "playDrum"
  /\ lastCall.arg = "hihat"
  /\ lastCall.result = "HIHAT_O"
  /\ ~hihatClosed
  /\ useRimshot

\* C29: config.volume stays within [0, 1] whatever setVolume(v) and
\* clearAllSettings calls are made.
C29_ConfigVolumeInRange == 0 <= configVolume /\ configVolume <= FullVolume

\* C30: an event callback calls playDrum only while the replay that scheduled
\* it is the latest one started, so no event is played twice in one replay by
\* a callback left over from a replay before.
C30_NoCallbackIntoLaterReplay ==
  [][\A t \in timers \ timers' :
       (t.kind = "event" /\ t.replay # replays) => ~lastFire'.played]_vars

\* C31: when a timer ends a replay, it is the auto-complete timer that this
\* same replay scheduled, never the one left over from a replay before.
C31_OwnAutoStopOnly ==
  [][(isPlaying /\ ~isPlaying' /\ timers' # timers) =>
       \E t \in timers \ timers' : t.kind = "auto" /\ t.replay = replays]_vars

\* C32: loadingProgress and every value passed to the listeners lie in 0..100,
\* and loadedSounds never exceeds totalSounds.
C32_ProgressInRange ==
  /\ loadingProgress \in 0..100
  /\ \A k \in 1..Len(reported) : reported[k] \in 0..100
  /\ loadedSounds <= totalSounds

\* C33: whenever the store's isAudioReady is true, audioService.isReady() is
\* true.
C33_ReadyFlagSound == isAudioReady => isReady

\* C34: with setVolume called only with values in [0, 1], the engine's master
\* volume equals config.volume after every store operation.
C34_MasterVolumeIsConfigVolume == masterVolume = configVolume

\* C35: a callback scheduled by the running replay leaves recordedEvents as
\* it was.
C35_ReplayKeepsRecording ==
  [][\A t \in timers \ timers' :
       (t.kind = "event" /\ t.replay = replays) =>
         recordedEvents' = recordedEvents]_vars

\* C36: a replayed event asks the engine for the sound name that was asked
\* for when the event was recorded (the variant is the recorded one), whatever
\* toggleHihat and toggleRimshot calls came in between.
C36_ReplaySameSound ==
  [][\A t \in timers \ timers' :
       (t.kind = "event" /\ lastFire'.played) =>
         soundType(t.drumId) = t.sounded]_vars

\* C37: in a step in which a listener unsubscribes itself from inside its
\* callback (the store's listener, on 100), every other listener registered
\* before the step is called with that update too, which for the store's
\* listeners shows as their unsubscribing as well.
C37_SelfUnsubscribeSkipsNone ==
  [][\A l \in Range(loadingCallbacks), m \in Range(loadingCallbacks) :
       l \notin Range(loadingCallbacks') =>
         m \notin Range(loadingCallbacks')]_vars

\* C38: a playSound call that returns null leaves the active set, and so
\* getActiveSoundCount(), as it was before the call.
C38_RejectedPlayKeepsActiveSet ==
  [][(lastPlay' # lastPlay /\ lastPlay'.result = 0) =>
       activeSources' = activeSources]_vars

\* C39: whenever a master gain node exists its gain equals masterVolume: the
\* node is created with the volume set before, and setVolume updates the
\* node in the step that changes masterVolume.
C39_MasterGainIsMasterVolume ==
  /\ [](masterGainNode # 0 => gainValue = masterVolume)
  /\ [][(masterGainNode = 0 /\ masterGainNode' # 0) =>
          gainValue' = masterVolume]_vars

\* A node created while the volume was not the default one, its batch still
\* loading.
C39_Witness ==
  /\ masterGainNode # 0
  /\ isLoading
  /\ lastCall.op = "setVolume"
  /\ masterVolume # DefaultVolume
  /\ gainValue = masterVolume

====
